---- MODULE Spec2Model ----
(***************************************************************************)
(* Instagram Follow-Back Checker (src/App.tsx): handle extraction, the set *)
(* comparison held by useMemo, the org filter, the sorted display lists    *)
(* and the CSV export.                                                     *)
(*                                                                         *)
(* A JavaScript string is a sequence of characters, a character is a       *)
(* one-character TLA+ string ("KELVIN" stands for U+212A KELVIN SIGN, the  *)
(* one non-ASCII character whose toLowerCase() is an ASCII letter).        *)
(***************************************************************************)
EXTENDS Integers, Sequences, FiniteSets, TLC

VARIABLES
    followingText,      \* useState: text of the Following textarea
    followersText,      \* useState: text of the Followers textarea
    filterPeopleOnly,   \* useState: the "Hide brands / orgs" checkbox
    memo,               \* value held by useMemo: the five sets
    view,               \* arrays computed by the last render
    download,           \* file handed to the browser by the last step
    pc,                 \* position of a direct call of one function
    arg,                \* its argument
    res                 \* its result

vars == <<followingText, followersText, filterPeopleOnly, memo, view,
          download, pc, arg, res>>

(***************************************************************************)
(* Characters and strings                                                  *)
(***************************************************************************)
LowerLetters == <<"a","b","c","d","e","f","g","h","i","j","k","l","m","n","o","p","q","r","s","t","u","v","w","x","y","z">>
UpperLetters == <<"A","B","C","D","E","F","G","H","I","J","K","L","M","N","O","P","Q","R","S","T","U","V","W","X","Y","Z">>
Digits == <<"0","1","2","3","4","5","6","7","8","9">>

Range(s) == {s[i] : i \in DOMAIN s}

SetMin(S) == CHOOSE x \in S : \A y \in S : x <= y
SetMax(S) == CHOOSE x \in S : \A y \in S : y <= x

\* the class [a-z0-9._] of the cleaning regex
HandleChars == Range(LowerLetters) \cup Range(Digits) \cup {".", "_"}

\* the class [a-zA-Z0-9._] of the token-splitting regex
TokenChars == HandleChars \cup Range(UpperLetters)

\* what String.prototype.trim removes (of the characters modelled)
WhiteSpace == {" ", "\t", "\n", "\r"}

\* String.prototype.toLowerCase, one character
lowerChar(c) ==
    IF c \in Range(UpperLetters)
    THEN LowerLetters[CHOOSE i \in DOMAIN UpperLetters : UpperLetters[i] = c]
    ELSE IF c = "KELVIN" THEN "k" ELSE c

toLowerCase(s) == [i \in DOMAIN s |-> lowerChar(s[i])]

\* .replace(/[^a-z0-9._]/g, '')
stripNonHandleChars(s) == SelectSeq(s, LAMBDA c : c \in HandleChars)

\* the null of cleanHandleToken; "null" is not a character
null == <<"null">>

MinHandleLen == 3
MaxHandleLen == 30

cleanHandleToken_noLowerCase(token) ==
    LET cleaned == SelectSeq(token, LAMBDA c : c \in TokenChars)
    IN  IF Len(cleaned) >= MinHandleLen /\ Len(cleaned) <= MaxHandleLen
        THEN cleaned ELSE null

cleanHandleToken_exclusiveMax(token) ==
    LET cleaned == stripNonHandleChars(toLowerCase(token))
    IN  IF Len(cleaned) >= MinHandleLen /\ Len(cleaned) < MaxHandleLen
        THEN cleaned ELSE null

cleanHandleToken_minOne(token) ==
    LET cleaned == stripNonHandleChars(toLowerCase(token))
    IN  IF Len(cleaned) >= 1 /\ Len(cleaned) <= MaxHandleLen
        THEN cleaned ELSE null

cleanHandleToken(token) ==
    LET cleaned == stripNonHandleChars(toLowerCase(token))
    IN  IF Len(cleaned) >= MinHandleLen /\ Len(cleaned) <= MaxHandleLen
        THEN cleaned ELSE null

\* raw.split(/\r?\n/)
RECURSIVE splitLines(_)
splitLines(s) ==
    LET brk == {i \in 1..Len(s) :
                   \/ s[i] = "\n"
                   \/ (s[i] = "\r" /\ i < Len(s) /\ s[i+1] = "\n")}
    IN  IF brk = {} THEN <<s>>
        ELSE LET i == SetMin(brk)
                 n == IF s[i] = "\n" THEN 1 ELSE 2
             IN  <<SubSeq(s, 1, i-1)>> \o splitLines(SubSeq(s, i+n, Len(s)))

\* l.trim()
trim(s) ==
    LET keep == {i \in 1..Len(s) : s[i] \notin WhiteSpace}
    IN  IF keep = {} THEN <<>> ELSE SubSeq(s, SetMin(keep), SetMax(keep))

\* line.split(/[^a-zA-Z0-9._]+/)
RECURSIVE splitTokens(_)
splitTokens(s) ==
    LET seps == {i \in 1..Len(s) : s[i] \notin TokenChars}
    IN  IF seps = {} THEN <<s>>
        ELSE LET i == SetMin(seps)
                 after == {k \in i..Len(s) : s[k] \in TokenChars}
                 j == IF after = {} THEN Len(s) + 1 ELSE SetMin(after)
             IN  <<SubSeq(s, 1, i-1)>> \o splitTokens(SubSeq(s, j, Len(s)))

\* .map(l => l.trim()).filter(Boolean)
trimmedLines(raw) ==
    SelectSeq([i \in DOMAIN splitLines(raw) |-> trim(splitLines(raw)[i])],
              LAMBDA l : l # <<>>)

extractLine_noWholeLine(out, line) ==
    LET first == splitTokens(line)[1]
        cleaned == cleanHandleToken(first)
    IN  IF cleaned # null THEN out \cup {cleaned} ELSE out

extractLine_firstTokenFirst(out, line) ==
    LET first == splitTokens(line)[1]
        cleaned == cleanHandleToken(first)
    IN  IF cleaned # null THEN out \cup {cleaned}
        ELSE LET whole == cleanHandleToken(line)
             IN  IF whole # null THEN out \cup {whole} ELSE out

extractLine_firstNonEmptyToken(out, line) ==
    LET whole == cleanHandleToken(line)
    IN  IF whole # null THEN out \cup {whole}
        ELSE LET tokens == SelectSeq(splitTokens(line), LAMBDA t : t # <<>>)
                 first == IF tokens = <<>> THEN <<>> ELSE tokens[1]
                 cleaned == cleanHandleToken(first)
             IN  IF cleaned # null THEN out \cup {cleaned} ELSE out

extractLine_noReturn(out, line) ==
    LET whole == cleanHandleToken(line)
        first == splitTokens(line)[1]
        cleaned == cleanHandleToken(first)
    IN  (IF whole # null THEN out \cup {whole} ELSE out)
            \cup (IF cleaned # null THEN {cleaned} ELSE {})

\* the forEach callback of extractHandles: out after one line
extractLine(out, line) ==
    LET whole == cleanHandleToken(line)
    IN  IF whole # null THEN out \cup {whole}
        ELSE LET first == splitTokens(line)[1]
                 cleaned == cleanHandleToken(first)
             IN  IF cleaned # null THEN out \cup {cleaned} ELSE out

RECURSIVE forEachLine(_, _)
forEachLine(lines, out) ==
    IF lines = <<>> THEN out
    ELSE forEachLine(Tail(lines), extractLine(out, Head(lines)))

extractHandles(raw) == forEachLine(trimmedLines(raw), {})

(***************************************************************************)
(* Inputs                                                                  *)
(***************************************************************************)
alice == <<"a","l","i","c","e">>
bob == <<"b","o","b">>
carol == <<"c","a","r","o","l">>
john == <<"j","o","h","n">>
john_doe_23 == <<"j","o","h","n","_","d","o","e","_","2","3">>
johndoejohn_doe_23 == <<"j","o","h","n","d","o","e">> \o john_doe_23
bookclub99 == <<"b","o","o","k","c","l","u","b","9","9">>
long30 == <<"a","b","c","d","e","f","g","h","i","j","k","l","m","n","o","p","q","r","s","t","u","v","w","x","y","z",".","1","2","3">>
BOB == <<"B","O","B","!","!">>
John == <<"J","o","h","n">>
LF == <<"\n">>
CRLF == <<"\r","\n">>

\* the line of the spec's display-name example
JohnDoeLine == <<"J","o","h","n"," ","D","o","e"," ","|"," ","@","j","o","h","n","_","d","o","e","_","2","3">>

\* the two texts of the spec's end-to-end example
ExampleFollowing == alice \o LF \o BOB \o LF \o <<"c">>
ExampleFollowers == alice \o LF \o bob \o LF \o carol

MaxToks == 3
MaxLines == 2

\* pieces a pasted line is made of
Frags == {John, <<" ">>, <<"@">>, john_doe_23, <<"a","b">>, <<"c">>, long30, BOB}

RECURSIVE Concats(_)
Concats(n) ==
    IF n = 0 THEN {<<>>}
    ELSE LET prev == Concats(n-1)
         IN  prev \cup {p \o f : p \in prev, f \in Frags}

\* lines that are already handles
CleanLines == {alice, bob, carol, long30}

SimpleLines == CleanLines \cup {BOB, <<"c">>, <<" ">> \o carol \o <<"\t">>, <<>>}

RECURSIVE Blocks(_, _, _)
Blocks(lines, breaks, n) ==
    IF n = 1 THEN lines
    ELSE LET prev == Blocks(lines, breaks, n-1)
         IN  prev \cup {t \o b \o l : t \in prev, b \in breaks, l \in lines}

ExampleTexts ==
    {JohnDoeLine, ExampleFollowing, ExampleFollowers,
     <<"O","KELVIN","_","g","o">>, <<"a","b","KELVIN">> \o long30,
     <<"@">> \o john_doe_23 \o <<" ">> \o long30,
     <<"BULLET", " ">> \o john_doe_23 \o <<" ", "|", " ">> \o long30,
     <<"@">> \o john_doe_23 \o <<" ">> \o long30 \o LF \o alice,
     <<"KELVIN">> \o long30 \o <<" ">> \o bob}

Texts == ExampleTexts \cup Concats(MaxToks) \cup Blocks(SimpleLines, {LF, CRLF}, MaxLines)

(***************************************************************************)
(* Set comparison (the body of useMemo)                                    *)
(***************************************************************************)
nonFollowersOf(following, followers) == {h \in following : h \notin followers}

followersOnlyOf_copyPaste(following, followers) ==
    {h \in following : h \notin followers}

followersOnlyOf(following, followers) == {h \in followers : h \notin following}

mutualsOf_all(following, followers) == {h \in following : TRUE}

mutualsOf(following, followers) == {h \in following : h \in followers}

comparison(following, followers) ==
    [nonFollowers  |-> nonFollowersOf(following, followers),
     followersOnly |-> followersOnlyOf(following, followers),
     mutuals       |-> mutualsOf(following, followers)]

\* the value the useMemo callback returns for the two texts
computeMemo(fgText, frText) ==
    LET following == extractHandles(fgText)
        followers == extractHandles(frText)
        c == comparison(following, followers)
    IN  [following |-> following, followers |-> followers,
         nonFollowers |-> c.nonFollowers, followersOnly |-> c.followersOnly,
         mutuals |-> c.mutuals]

useMemo_followingDepOnly(prev, prevFg, prevFr, fgText, frText) ==
    IF fgText = prevFg THEN prev
    ELSE computeMemo(fgText, frText)

\* useMemo with deps [followingText, followersText]: the callback runs on a
\* render only when a dependency differs from the previous render's
useMemo(prev, prevFg, prevFr, fgText, frText) ==
    IF fgText = prevFg /\ frText = prevFr THEN prev
    ELSE computeMemo(fgText, frText)

(***************************************************************************)
(* Display lists                                                           *)
(***************************************************************************)
\* order of the handle characters under localeCompare (root collation:
\* punctuation "_" "." before digits before letters)
collationRank(c) ==
    IF c = "_" THEN 1
    ELSE IF c = "." THEN 2
    ELSE IF c \in Range(Digits)
         THEN 2 + (CHOOSE i \in DOMAIN Digits : Digits[i] = c)
    ELSE IF c \in Range(LowerLetters)
         THEN 12 + (CHOOSE i \in DOMAIN LowerLetters : LowerLetters[i] = c)
    ELSE 0

localeCompare(x, y) ==
    LET n == IF Len(x) < Len(y) THEN Len(x) ELSE Len(y)
        diff == {i \in 1..n : x[i] # y[i]}
    IN  IF diff = {}
        THEN IF Len(x) < Len(y) THEN -1 ELSE IF Len(x) > Len(y) THEN 1 ELSE 0
        ELSE LET i == SetMin(diff)
             IN  IF collationRank(x[i]) < collationRank(y[i]) THEN -1 ELSE 1

\* Array.from(set).sort((x, y) => x.localeCompare(y))
RECURSIVE toSorted(_)
toSorted(S) ==
    IF S = {} THEN <<>>
    ELSE LET m == CHOOSE x \in S : \A y \in S : localeCompare(x, y) <= 0
         IN  <<m>> \o toSorted(S \ {m})

orgHints == <<
    <<"o","f","f","i","c","i","a","l">>, <<"i","n","c">>, <<"c","l","u","b">>,
    <<"s","c","h","o","o","l">>, <<"u","n","i","v","e","r","s","i","t","y">>,
    <<"c","o","l","l","e","g","e">>, <<"g","o","v">>, <<"n","e","w","s">>,
    <<"s","t","o","r","e">>, <<"s","h","o","p">>, <<"b","r","a","n","d">>,
    <<"t","e","a","m">>, <<"m","i","a","m","i">>, <<"u","m","i","a","m","i">>,
    <<"h","e","r","b","e","r","t">>, <<"a","l","u","m","n","i">>,
    <<"f","o","o","t","b","a","l","l">>, <<"s","o","c","c","e","r">>,
    <<"h","o","c","k","e","y">>, <<"b","a","s","e","b","a","l","l">>,
    <<"b","a","r","s","t","o","o","l">>, <<"d","a","i","l","y">>,
    <<"s","t","u","d","i","o">>, <<"p","h","o","t","o","g","r","a","p","h","y">>,
    <<"k","i","t","c","h","e","n">>, <<"s","c","u","b","a">>, <<"k","i","t","e">>,
    <<"f","r","e","e","d","i","v","i","n","g">>, <<"b","u","i","l","d","o","n">>,
    <<"b","e","s","t","p","a","r","t","i","e","s">>,
    <<"c","o","r","n","e","r","d","e","l","i">>, <<"i","f","c">> >>

\* String.prototype.includes
includes(h, k) == \E i \in 0..(Len(h) - Len(k)) : SubSeq(h, i+1, i+Len(k)) = k

looksLikeOrg_startsWith(h) ==
    \E n \in DOMAIN orgHints :
        /\ Len(orgHints[n]) <= Len(h)
        /\ SubSeq(h, 1, Len(orgHints[n])) = orgHints[n]

looksLikeOrg(h) == \E n \in DOMAIN orgHints : includes(h, orgHints[n])

filterList(flag, list) ==
    IF flag THEN SelectSeq(list, LAMBDA h : ~looksLikeOrg(h)) ELSE list

\* the five arrays of one render
render(m, flag) ==
    [followingArr     |-> toSorted(m.following),
     followersArr     |-> toSorted(m.followers),
     nonFollowersArr  |-> filterList(flag, toSorted(m.nonFollowers)),
     followersOnlyArr |-> filterList(flag, toSorted(m.followersOnly)),
     mutualsArr       |-> filterList(flag, toSorted(m.mutuals))]

(***************************************************************************)
(* CSV export                                                              *)
(***************************************************************************)
csvFilename == <<"i","g","_","c","o","m","p","a","r","e","_","r","e","s","u","l","t","s",".","c","s","v">>

csvHeader == <<
    <<"y","o","u","_","f","o","l","l","o","w","_","b","u","t","_","t","h","e","y","_","d","o","n","t","_","f","o","l","l","o","w","_","y","o","u">>,
    <<"t","h","e","y","_","f","o","l","l","o","w","_","y","o","u","_","b","u","t","_","y","o","u","_","d","o","n","t","_","f","o","l","l","o","w">>,
    <<"m","u","t","u","a","l","s">> >>

Max3_first(a, b, c) == a

Max3(a, b, c) == SetMax({a, b, c})

\* arr[i] ?? '' (i counted from 1)
at(arr, i) == IF i <= Len(arr) THEN arr[i] ELSE <<>>

exportRows_swapped(nfArr, foArr, muArr) ==
    LET maxLen == Max3(Len(nfArr), Len(foArr), Len(muArr))
    IN  <<csvHeader>> \o
        [i \in 1..maxLen |-> <<at(foArr, i), at(nfArr, i), at(muArr, i)>>]

\* the rows exportCSV builds from the three display arrays
exportRows(nfArr, foArr, muArr) ==
    LET maxLen == Max3(Len(nfArr), Len(foArr), Len(muArr))
    IN  <<csvHeader>> \o
        [i \in 1..maxLen |-> <<at(nfArr, i), at(foArr, i), at(muArr, i)>>]

\* c.replace(/"/g, '""')
RECURSIVE doubleQuotes(_)
doubleQuotes(c) ==
    IF c = <<>> THEN <<>>
    ELSE (IF Head(c) = "\"" THEN <<"\"", "\"">> ELSE <<Head(c)>>)
         \o doubleQuotes(Tail(c))

csvField(c) == <<"\"">> \o doubleQuotes(c) \o <<"\"">>

\* Array.prototype.join
RECURSIVE join(_, _)
join(parts, sep) ==
    IF parts = <<>> THEN <<>>
    ELSE IF Len(parts) = 1 THEN parts[1]
    ELSE parts[1] \o sep \o join(Tail(parts), sep)

csvRow(r) == join([j \in DOMAIN r |-> csvField(r[j])], <<",">>)

\* downloadCSV(rows) with the default filename: the file the browser gets
downloadCSV(rows) ==
    [filename |-> csvFilename,
     csv      |-> join([i \in DOMAIN rows |-> csvRow(rows[i])], LF)]

exportCSV(v) ==
    downloadCSV(exportRows(v.nonFollowersArr, v.followersOnlyArr, v.mutualsArr))

(***************************************************************************)
(* The component: state after construction and one action per handler.     *)
(* Every handler ends with the re-render React runs after a state change.  *)
(***************************************************************************)
NoDownload == [filename |-> <<>>, csv |-> <<>>]
Idle == "idle"

MaxAppLines == 2

AppLines == {alice, bookclub99}

\* what the user types or pastes into a textarea
AppTexts ==
    {<<>>, ExampleFollowing, ExampleFollowers, JohnDoeLine}
        \cup Blocks(AppLines, {LF}, MaxAppLines)

Init ==
    /\ followingText = <<>>
    /\ followersText = <<>>
    /\ filterPeopleOnly = FALSE
    /\ memo = computeMemo(<<>>, <<>>)
    /\ view = render(computeMemo(<<>>, <<>>), FALSE)
    /\ download = NoDownload
    /\ pc = Idle
    /\ arg = <<>>
    /\ res = <<>>

\* onChange of the Following textarea
setFollowingText(t) ==
    /\ followingText' = t
    /\ memo' = useMemo(memo, followingText, followersText, t, followersText)
    /\ view' = render(memo', filterPeopleOnly)
    /\ download' = NoDownload
    /\ UNCHANGED <<followersText, filterPeopleOnly, pc, arg, res>>

\* onChange of the Followers textarea
setFollowersText(t) ==
    /\ followersText' = t
    /\ memo' = useMemo(memo, followingText, followersText, followingText, t)
    /\ view' = render(memo', filterPeopleOnly)
    /\ download' = NoDownload
    /\ UNCHANGED <<followingText, filterPeopleOnly, pc, arg, res>>

\* onChange of the checkbox
setFilterPeopleOnly(checked) ==
    /\ filterPeopleOnly' = checked
    /\ memo' = useMemo(memo, followingText, followersText,
                       followingText, followersText)
    /\ view' = render(memo', checked)
    /\ download' = NoDownload
    /\ UNCHANGED <<followingText, followersText, pc, arg, res>>

\* onClick of Clear
Clear ==
    /\ followingText' = <<>>
    /\ followersText' = <<>>
    /\ memo' = useMemo(memo, followingText, followersText, <<>>, <<>>)
    /\ view' = render(memo', filterPeopleOnly)
    /\ download' = NoDownload
    /\ UNCHANGED <<filterPeopleOnly, pc, arg, res>>

\* onClick of Export CSV: no state change, one file
ExportCSV ==
    /\ download' = exportCSV(view)
    /\ UNCHANGED <<followingText, followersText, filterPeopleOnly, memo,
                   view, pc, arg, res>>

Next ==
    \/ \E t \in AppTexts : setFollowingText(t)
    \/ \E t \in AppTexts : setFollowersText(t)
    \/ \E checked \in BOOLEAN : setFilterPeopleOnly(checked)
    \/ Clear
    \/ ExportCSV

Spec == Init /\ [][Next]_vars

(***************************************************************************)
(* Direct calls of the pure functions, inputs drawn by Init                *)
(***************************************************************************)
AppIdle ==
    /\ followingText = <<>>
    /\ followersText = <<>>
    /\ filterPeopleOnly = FALSE
    /\ memo = computeMemo(<<>>, <<>>)
    /\ view = render(computeMemo(<<>>, <<>>), FALSE)
    /\ download = NoDownload

appVars == <<followingText, followersText, filterPeopleOnly, memo, view, download>>

\* extractHandles(raw)
InitExtract == AppIdle /\ pc = "call" /\ arg \in Texts /\ res = {}

CallExtractHandles ==
    /\ pc = "call"
    /\ res' = extractHandles(arg)
    /\ pc' = "done"
    /\ UNCHANGED <<appVars, arg>>

NextExtract == CallExtractHandles

SpecExtract == InitExtract /\ [][NextExtract]_vars

\* the comparison of two handle sets, then of the same sets swapped
CompareHandles == {alice, bob, carol, bookclub99}

NoComparison == [nonFollowers |-> {}, followersOnly |-> {}, mutuals |-> {}]

InitCompare ==
    /\ AppIdle
    /\ pc = "call"
    /\ arg \in (SUBSET CompareHandles) \X (SUBSET CompareHandles)
    /\ res = NoComparison

CallComparison ==
    /\ pc = "call"
    /\ res' = comparison(arg[1], arg[2])
    /\ pc' = "done"
    /\ UNCHANGED <<appVars, arg>>

CallComparisonSwapped ==
    /\ pc = "done"
    /\ arg' = <<arg[2], arg[1]>>
    /\ res' = comparison(arg[2], arg[1])
    /\ pc' = "swapped"
    /\ UNCHANGED appVars

NextCompare == CallComparison \/ CallComparisonSwapped

SpecCompare == InitCompare /\ [][NextCompare]_vars

\* exportCSV over three display arrays
MaxCol == 2

Cells == {<<"a">>, <<"b">>, <<"c">>, <<"q", "\"">>}

\* arrays without repeats (each display array comes from a Set)
Columns ==
    {c \in UNION {[1..n -> Cells] : n \in 0..MaxCol} :
        \A i, j \in DOMAIN c : i # j => c[i] # c[j]}

InitCSV ==
    /\ AppIdle
    /\ pc = "call"
    /\ arg \in Columns \X Columns \X Columns
    /\ res = NoDownload

CallExportCSV ==
    /\ pc = "call"
    /\ res' = downloadCSV(exportRows(arg[1], arg[2], arg[3]))
    /\ pc' = "done"
    /\ UNCHANGED <<appVars, arg>>

NextCSV == CallExportCSV

SpecCSV == InitCSV /\ [][NextCSV]_vars

(***************************************************************************)
(* Properties                                                              *)
(***************************************************************************)

\* C1: for all handle sets A (Following) and B (Followers) the three sets
\* of the comparison are pairwise disjoint, NonFollowers \cup Mutuals = A
\* and FollowersOnly \cup Mutuals = B.
C1_PartitionOfInputs ==
    pc \in {"done", "swapped"} =>
        /\ res.nonFollowers \cap res.followersOnly = {}
        /\ res.nonFollowers \cap res.mutuals = {}
        /\ res.followersOnly \cap res.mutuals = {}
        /\ res.nonFollowers \cup res.mutuals = arg[1]
        /\ res.followersOnly \cup res.mutuals = arg[2]

C1_Witness ==
    /\ pc = "done"
    /\ res.nonFollowers # {}
    /\ res.followersOnly # {}
    /\ res.mutuals # {}

\* C6: comparing the swapped inputs leaves the mutuals unchanged and
\* exchanges the two difference sets: Mutuals(A,B) = Mutuals(B,A) and
\* NonFollowers(A,B) = FollowersOnly(B,A).
C6_SwapSymmetry ==
    [][(pc = "done" /\ pc' = "swapped") =>
          /\ arg' = <<arg[2], arg[1]>>
          /\ res'.mutuals = res.mutuals
          /\ res'.followersOnly = res.nonFollowers
          /\ res'.nonFollowers = res.followersOnly]_vars

C6_Witness ==
    /\ pc = "swapped"
    /\ res.followersOnly # {}
    /\ res.nonFollowers # {}
    /\ res.mutuals # {}
    /\ res.followersOnly # res.nonFollowers

\* the pattern ^[a-z0-9._]{3,30}$
MatchesHandlePattern(h) ==
    /\ Len(h) >= 3
    /\ Len(h) <= 30
    /\ \A i \in DOMAIN h : h[i] \in HandleChars

\* C2: every handle extractHandles returns matches ^[a-z0-9._]{3,30}$.
C2_HandlesMatchPattern ==
    pc = "done" => \A h \in res : MatchesHandlePattern(h)

C2_Witness ==
    /\ pc = "done"
    /\ arg = BOB \o <<" ">> \o long30
    /\ res = {bob}

\* lowercase, then drop every character outside [a-z0-9._]
Normalized(l) == SelectSeq(toLowerCase(l), LAMBDA c : c \in HandleChars)

C4_WholeLineShortCircuits ==
    pc = "done" =>
        LET lines == Range(trimmedLines(arg))
            valid == {l \in lines : Len(Normalized(l)) \in 3..30}
        IN  /\ \A l \in valid : Normalized(l) \in res
            /\ valid = lines => res = {Normalized(l) : l \in valid}

C4_Witness ==
    /\ pc = "done"
    /\ arg = John \o <<" ">> \o john_doe_23
    /\ res = {john \o john_doe_23}
    /\ cleanHandleToken(splitTokens(arg)[1]) = john

\* blocks of at most n clean lines, each with the set of its lines
RECURSIVE CleanBlocks(_)
CleanBlocks(n) ==
    IF n = 1 THEN {[text |-> l, handles |-> {l}] : l \in CleanLines}
    ELSE LET prev == CleanBlocks(n-1)
         IN  prev \cup
             {[text |-> p.text \o b \o l, handles |-> p.handles \cup {l}] :
                 p \in prev, b \in {LF, CRLF}, l \in CleanLines}

\* C5: a block of lines that are each a valid handle, separated by \n or
\* \r\n, extracts to exactly the set of those lines.
C5_IdentityOnCleanInput ==
    pc = "done" =>
        \A p \in CleanBlocks(MaxLines) : arg = p.text => res = p.handles

C5_Witness ==
    /\ pc = "done"
    /\ arg = long30 \o CRLF \o bob
    /\ res = {long30, bob}

\* h contains hint k as a substring
ContainsHint(h, k) ==
    \E i \in 1..Len(h) : \E j \in i..Len(h) :
        /\ j - i + 1 = Len(k)
        /\ \A n \in 1..Len(k) : h[i + n - 1] = k[n]

ContainsAnyHint(h) == \E k \in Range(orgHints) : ContainsHint(h, k)

DisplayedPairs ==
    {<<view.nonFollowersArr, memo.nonFollowers>>,
     <<view.followersOnlyArr, memo.followersOnly>>,
     <<view.mutualsArr, memo.mutuals>>}

C7_DisplayedLists ==
    /\ \A p \in DisplayedPairs :
          Range(p[1]) = IF filterPeopleOnly
                        THEN {h \in p[2] : ~ContainsAnyHint(h)}
                        ELSE p[2]
    /\ \A p \in DisplayedPairs :
          bookclub99 \in p[2] => (bookclub99 \in Range(p[1]) <=> ~filterPeopleOnly)
    /\ Range(view.followingArr) = memo.following
    /\ Range(view.followersArr) = memo.followers
    /\ Len(view.followingArr) = Cardinality(memo.following)
    /\ Len(view.followersArr) = Cardinality(memo.followers)

C7_ToggleFrame ==
    filterPeopleOnly' # filterPeopleOnly =>
        /\ followingText' = followingText
        /\ followersText' = followersText
        /\ memo' = memo
        /\ view'.followingArr = view.followingArr
        /\ view'.followersArr = view.followersArr

\* C7: with the org filter on, each displayed list is its derived set minus
\* the handles that contain a hint (bookclub99 contains club); with it off,
\* each displayed list holds the whole derived set; a toggle changes neither
\* the texts, the Following/Followers sets and counts, nor the derived sets.
C7_FilterOnlyChangesDisplay == []C7_DisplayedLists /\ [][C7_ToggleFrame]_vars

C7_Witness ==
    /\ filterPeopleOnly
    /\ memo.mutuals = {alice, bookclub99}
    /\ view.mutualsArr = <<alice>>
    /\ Len(view.followingArr) = 2

\* one CSV line: each field in double quotes, embedded quotes doubled
QuotedLine(fields) ==
    <<"\"">> \o doubleQuotes(fields[1]) \o <<"\"", ",", "\"">>
             \o doubleQuotes(fields[2]) \o <<"\"", ",", "\"">>
             \o doubleQuotes(fields[3]) \o <<"\"">>

\* element i of a list, the empty string once the list is exhausted
Padded(list, i) == IF i \in DOMAIN list THEN list[i] ELSE <<>>

Longest(a, b, c) == CHOOSE n \in {Len(a), Len(b), Len(c)} :
                        Len(a) <= n /\ Len(b) <= n /\ Len(c) <= n

\* the data rows of the spec's example: "a","","b" and "","","c"
ExampleRow1 == <<"\"","a","\"", ",", "\"","\"", ",", "\"","b","\"">>
ExampleRow2 == <<"\"","\"", ",", "\"","\"", ",", "\"","c","\"">>

\* C8: the export of three lists has max(len1, len2, len3) data rows, data
\* row i holds element i of each list, or the empty string where the list
\* is exhausted; {a}, {}, {b,c} gives exactly "a","","b" and "","","c".
C8_PaddedRows ==
    pc = "done" =>
        LET lines == splitLines(res.csv)
            data == Tail(lines)
        IN  /\ Len(data) = Longest(arg[1], arg[2], arg[3])
            /\ \A i \in DOMAIN data :
                  data[i] = QuotedLine(<<Padded(arg[1], i), Padded(arg[2], i),
                                         Padded(arg[3], i)>>)
            /\ arg = <<<< <<"a">> >>, <<>>, << <<"b">>, <<"c">> >>>> =>
                  data = <<ExampleRow1, ExampleRow2>>

C8_Witness ==
    /\ pc = "done"
    /\ arg = <<<< <<"a">> >>, <<>>, << <<"b">>, <<"c">> >>>>
    /\ Len(splitLines(res.csv)) = 3

HeaderNames == <<
    <<"y","o","u","_","f","o","l","l","o","w","_","b","u","t","_","t","h","e","y","_","d","o","n","t","_","f","o","l","l","o","w","_","y","o","u">>,
    <<"t","h","e","y","_","f","o","l","l","o","w","_","y","o","u","_","b","u","t","_","y","o","u","_","d","o","n","t","_","f","o","l","l","o","w">>,
    <<"m","u","t","u","a","l","s">> >>

\* C9: every export is a file named ig_compare_results.csv whose first row
\* holds the fields you_follow_but_they_dont_follow_you,
\* they_follow_you_but_you_dont_follow, mutuals (each quoted like every
\* field) and whose later rows hold non-followers, followers-only, mutuals
\* in that order, also when all three lists are empty.
C9_FileNameHeaderColumnOrder ==
    download # NoDownload =>
        LET lines == splitLines(download.csv)
        IN  /\ download.filename = <<"i","g","_","c","o","m","p","a","r","e","_","r","e","s","u","l","t","s",".","c","s","v">>
            /\ lines[1] = QuotedLine(HeaderNames)
            /\ Len(lines) = 1 + Longest(view.nonFollowersArr,
                                        view.followersOnlyArr, view.mutualsArr)
            /\ \A i \in 1..(Len(lines) - 1) :
                  lines[i+1] = QuotedLine(<<Padded(view.nonFollowersArr, i),
                                            Padded(view.followersOnlyArr, i),
                                            Padded(view.mutualsArr, i)>>)

C9_Witness ==
    /\ download # NoDownload
    /\ view.nonFollowersArr = <<bookclub99>>
    /\ view.followersOnlyArr = <<bob, carol>>
    /\ view.mutualsArr = <<alice>>

C9_WitnessAllEmpty ==
    /\ download # NoDownload
    /\ download.csv = QuotedLine(HeaderNames)

\* C10: Following text alice / BOB!! / c and Followers text alice / bob /
\* carol give Following {alice, bob}, Followers {alice, bob, carol},
\* NonFollowers {}, FollowersOnly {carol}, Mutuals {alice, bob}.
C10_EndToEndExample ==
    (followingText = ExampleFollowing /\ followersText = ExampleFollowers) =>
        /\ memo.following = {alice, bob}
        /\ memo.followers = {alice, bob, carol}
        /\ memo.nonFollowers = {}
        /\ memo.followersOnly = {carol}
        /\ memo.mutuals = {alice, bob}

C10_Witness ==
    /\ followingText = ExampleFollowing
    /\ followersText = ExampleFollowers
    /\ view.mutualsArr = <<alice, bob>>
    /\ view.followersOnlyArr = <<carol>>

\* the five sets are those of the current two texts
C11_SetsOfCurrentTexts ==
    LET A == extractHandles(followingText)
        B == extractHandles(followersText)
    IN  /\ memo.following = A
        /\ memo.followers = B
        /\ memo.nonFollowers = A \ B
        /\ memo.followersOnly = B \ A
        /\ memo.mutuals = A \cap B

C11_HandlerFrame ==
    /\ (filterPeopleOnly' # filterPeopleOnly \/ download' # NoDownload) =>
          /\ followingText' = followingText
          /\ followersText' = followersText
    /\ Clear =>
          /\ followingText' = <<>>
          /\ followersText' = <<>>
          /\ memo'.following = {}
          /\ memo'.followers = {}
          /\ memo'.nonFollowers = {}
          /\ memo'.followersOnly = {}
          /\ memo'.mutuals = {}

\* C11: after any sequence of edits, toggles, Clear and Export the five sets
\* held by the component are the extraction and comparison of the current
\* two texts; toggling and exporting leave both texts unchanged, and Clear
\* leaves both texts and all five sets empty.
C11_NoStaleResults == []C11_SetsOfCurrentTexts /\ [][C11_HandlerFrame]_vars

C11_Witness ==
    /\ followingText = <<>>
    /\ followersText = alice \o LF \o bookclub99
    /\ memo.followersOnly = {alice, bookclub99}
    /\ filterPeopleOnly
    /\ download # NoDownload

\* the characters of a line before its first separator: element 0 of the
\* split on runs of characters outside [A-Za-z0-9._]
LeadingToken(l) ==
    LET n == CHOOSE k \in 0..Len(l) :
                 /\ \A i \in 1..k : l[i] \in TokenChars
                 /\ k < Len(l) => l[k+1] \notin TokenChars
    IN  SubSeq(l, 1, n)

WholeLineValid(l) == Len(Normalized(l)) >= 3 /\ Len(Normalized(l)) <= 30

\* lines with no valid whole-line normalization that begin with a separator
SeparatorLedLines(lines) ==
    {l \in lines : ~WholeLineValid(l) /\ l[1] \notin TokenChars}

\* C12: for a line whose whole-line normalization is not a valid handle the
\* token used is element 0 of the split, empty elements included; such a
\* line that begins with a separator (@, emoji, bullet) has an empty first
\* token and contributes no handle, even when a later token is a valid one.
C12_SeparatorLedLineContributesNothing ==
    pc = "done" =>
        LET lines == Range(trimmedLines(arg))
            led == SeparatorLedLines(lines)
        IN  /\ \A l \in lines : ~WholeLineValid(l) =>
                  splitTokens(l)[1] = LeadingToken(l)
            /\ \A l \in led : splitTokens(l)[1] = <<>>
            /\ lines = led => res = {}
            /\ \A h \in res : \E l \in lines \ led :
                  h = Normalized(l) \/ h = Normalized(LeadingToken(l))

C12_Witness ==
    /\ pc = "done"
    /\ arg = <<"@">> \o john_doe_23 \o <<" ">> \o long30
    /\ splitTokens(arg) = <<<<>>, john_doe_23, long30>>
    /\ res = {}

\* C13: the first-token fallback adds a handle only for a line whose
\* whole-line normalization is longer than 30 characters; the normalized
\* first token is never longer than the whole-line normalization, a line
\* whose whole-line normalization has fewer than 3 characters contributes
\* nothing, and the extracted set is no larger than the number of non-empty
\* trimmed lines.
C13_FallbackOnlyForLongLines ==
    pc = "done" =>
        LET lines == trimmedLines(arg)
            short == {l \in Range(lines) : Len(Normalized(l)) < 3}
        IN  /\ \A l \in Range(lines) :
                  Len(Normalized(LeadingToken(l))) <= Len(Normalized(l))
            /\ \A h \in res : \E l \in Range(lines) \ short :
                  \/ h = Normalized(l)
                  \/ Len(Normalized(l)) > 30 /\ h = Normalized(LeadingToken(l))
            /\ Range(lines) = short => res = {}
            /\ Cardinality(res) <= Len(lines)

C13_Witness ==
    /\ pc = "done"
    /\ arg = John \o <<" ">> \o long30
    /\ Len(Normalized(arg)) = 34
    /\ res = {john}

====
